---- MODULE Spec2Model ----
(***************************************************************************)
(* Fleet Management Problem environment of sumo-gym.                       *)
(*                                                                         *)
(*   FMP        src/src/sumo_gym/envs/fmp.py    problem definition         *)
(*   FMPEnv     src/src/sumo_gym/envs/fmp.py    reset / step               *)
(*   GridSpace  src/src/sumo_gym/spaces/grid.py sample (decision policy)   *)
(*                                                                         *)
(* sumo_gym.utils.fmp_utils (Loading, GridAction, dist_between,            *)
(* one_step_to_destination, nearest_charging_station_with_distance,        *)
(* get_hot_spot_weight) is not among the source files; those definitions   *)
(* follow spec.md sections 3, 4.1, 4.3 and 4.4.                            *)
(*                                                                         *)
(* Indices are 0-based as in the source; a Python list is a TLA+ sequence  *)
(* read through At(list, i) == list[i + 1].  Every coordinate, capacity    *)
(* and charging speed of the problem definitions below is an integer and   *)
(* every pairwise vertex distance is an integer, so the distances, the     *)
(* batteries and the rewards of the source are floats with integer values  *)
(* and their sums and differences are exact.  The two quotients of         *)
(* grid.py lines 108-112 are not: they are rounded to binary64 as the      *)
(* source rounds them (float_round_err, float_sum_below_one).              *)
(***************************************************************************)
EXTENDS Integers, Sequences, FiniteSets, TLC

VARIABLES
    kwargs,     \* the arguments FMP.__init__ was called with (= the attributes it stores)
    built,      \* TRUE iff the constructor returned an instance
    states,     \* FMPEnv.states: one FMPState per electric vehicle
    responded,  \* FMPEnv.responded (the same set object GridSpace.responded refers to)
    rewards,    \* FMPEnv.rewards
    actions,    \* the list sample() returned last, or the list step() was last called with
    forced,     \* number of step() calls of this episode made by an external policy
    pc,         \* "new" | "constructed" | "ready" | "sampled" | "raised"
    err,        \* the exception the last call raised, "none" if it returned
    ret         \* the last call and what it returned

vars == <<kwargs, built, states, responded, rewards, actions, forced, pc, err, ret>>

(***************************************************************************)
(* Bounds of the model.                                                    *)
(***************************************************************************)
\* capacities range over 1 .. diagonal_len + CapSlack
CapSlack == 2
\* charging speeds range over 0 .. MaxSpeed
MaxSpeed == 2
\* step() calls per episode when the actions are chosen by an external policy
MaxForced == 2

(***************************************************************************)
(* fmp_utils: sentinels and value types.                                   *)
(***************************************************************************)
NO_LOADING == -1
NO_CHARGING == -1

At(list, i) == list[i + 1]
Idx(list) == 0 .. Len(list) - 1
Range(list) == {list[k] : k \in 1 .. Len(list)}

Vertex(x, y) == [x |-> x, y |-> y]
Edge(start, end) == [start |-> start, end |-> end]
Demand(departure, destination) == [departure |-> departure, destination |-> destination]
ElectricVehicles(id, capacity) == [id |-> id, capacity |-> capacity]
ChargingStation(location, charging_speed) ==
    [location |-> location, charging_speed |-> charging_speed]
Loading(current, target) == [current |-> current, target |-> target]

\* a fresh action: no loading, no charging, location 0 (as FMPState's defaults)
GridAction ==
    [is_loading |-> Loading(NO_LOADING, NO_LOADING),
     is_charging |-> NO_CHARGING,
     location |-> 0]

\* FMPState(location, is_loading, is_charging, battery)
FMPState(location, is_loading, is_charging, battery) ==
    [location |-> location, is_loading |-> is_loading,
     is_charging |-> is_charging, battery |-> battery]

(***************************************************************************)
(* fmp_utils: the graph model (spec.md 4.1).                               *)
(***************************************************************************)
\* The(S) is the element of the singleton S.  The({F(x) : x \in {e}}) is F(e) with e
\* evaluated once, which keeps nested calls cheap for TLC; it is used for nothing else.
The(S) == CHOOSE x \in S : TRUE

Min(S) == CHOOSE m \in S : \A n \in S : m <= n
Max(S) == CHOOSE m \in S : \A n \in S : m >= n

\* square root of a perfect square (floor otherwise)
Sqrt(n) == CHOOSE r \in 0 .. n : r * r <= n /\ (r + 1) * (r + 1) > n

euclidean_distance(a, b) ==
    The({Sqrt(n) : n \in {(a.x - b.x) * (a.x - b.x) + (a.y - b.y) * (a.y - b.y)}})

\* direct distance between the two vertices
dist_between(vertices, edges, start_index, dest_index) ==
    The({euclidean_distance(At(vertices, s), At(vertices, t)) :
            s \in {start_index}, t \in {dest_index}})

\* the neighbour of start (over an edge leaving it) nearest to dest by direct
\* distance, the first such edge winning a tie
nearest_neighbour(vertices, edges, start, dest) ==
    LET out == {e \in 1 .. Len(edges) : edges[e].start = start}
        d(e) == dist_between(vertices, edges, edges[e].end, dest)
        best == CHOOSE e \in out :
                   \A f \in out : d(e) < d(f) \/ (d(e) = d(f) /\ e <= f)
    IN  edges[best].end

one_step_to_destination(vertices, edges, start_index, dest_index) ==
    The({IF s = t THEN t ELSE nearest_neighbour(vertices, edges, s, t) :
            s \in {start_index}, t \in {dest_index}})

\* the station nearest to vertex location, the lowest index on a tie
nearest_station(vertices, charging_stations, edges, location) ==
    LET d(c) == dist_between(vertices, edges, location, At(charging_stations, c).location)
    IN  CHOOSE c \in Idx(charging_stations) :
           \A o \in Idx(charging_stations) : d(c) < d(o) \/ (d(c) = d(o) /\ c <= o)

\* <<index, distance>> of the nearest charging station
nearest_charging_station_with_distance(vertices, charging_stations, edges, location) ==
    The({<<ncs, dist_between(vertices, edges, l, At(charging_stations, ncs).location)>> :
            l \in {location},
            ncs \in {nearest_station(vertices, charging_stations, edges, location)}})

\* demand density at a vertex: the number of demands departing from it
get_hot_spot_weight(vertices, edges, demand, vertex) ==
    Cardinality({d \in Idx(demand) : At(demand, d).departure = vertex})

(***************************************************************************)
(* FMP: the problem definition and its validation.                         *)
(***************************************************************************)
ArrayFields ==
    {"vertices", "charging_stations", "electric_vehicles", "demand", "edges", "departures"}

\* _is_valid without the loop of lines 96-102
demand_off_stations_skipped(f) == TRUE

\* lines 96-102: no demand departs from or arrives at a charging station's vertex
demand_off_stations(f) ==
    LET charging_station_locations ==
            {f.charging_stations[c].location : c \in 1 .. Len(f.charging_stations)}
    IN  \A d \in 1 .. Len(f.demand) :
            ~ (\/ f.demand[d].departure \in charging_station_locations
               \/ f.demand[d].destination \in charging_station_locations)

\* FMP._is_valid; an array argument left None is one whose name is not in f.given
is_valid(f) ==
    IF \/ f.n_vertex = 0
       \/ f.n_edge = 0
       \/ f.n_vehicle = 0
       \/ f.n_charging_station = 0
       \/ "vertices" \notin f.given
       \/ "charging_stations" \notin f.given
       \/ "electric_vehicles" \notin f.given
       \/ "demand" \notin f.given
       \/ "edges" \notin f.given
       \/ "departures" \notin f.given
    THEN FALSE
    ELSE IF Cardinality(Range(f.vertices)) # Len(f.vertices) THEN FALSE
    ELSE IF Cardinality(Range(f.edges)) # Len(f.edges) THEN FALSE
    ELSE IF Cardinality(Range(f.electric_vehicles)) # Len(f.electric_vehicles) THEN FALSE
    ELSE IF Cardinality(Range(f.charging_stations)) # Len(f.charging_stations) THEN FALSE
    ELSE demand_off_stations(f)

\* the attributes of the FMP instance are the constructor's arguments
fmp == kwargs

(***************************************************************************)
(* Problem definitions the environment is run on.                          *)
(***************************************************************************)
BothWays(pairs) ==
    [k \in 1 .. 2 * Len(pairs) |->
        IF k <= Len(pairs) THEN Edge(pairs[k][1], pairs[k][2])
        ELSE Edge(pairs[k - Len(pairs)][2], pairs[k - Len(pairs)][1])]

\* a 3 x 4 rectangle, its four sides as edges in both directions (diagonal 5)
RectVertices == <<Vertex(0, 0), Vertex(3, 0), Vertex(3, 4), Vertex(0, 4)>>
RectEdges == BothWays(<< <<0, 1>>, <<1, 2>>, <<2, 3>>, <<3, 0>> >>)

\* three vertices on a line, one unit apart
LineVertices == <<Vertex(0, 0), Vertex(1, 0), Vertex(2, 0)>>
LineEdges == BothWays(<< <<0, 1>>, <<1, 2>> >>)

DiagonalOf(vertices) ==
    2 * (Max({v.y : v \in Range(vertices)}) - Min({v.y : v \in Range(vertices)})
         + Max({v.x : v \in Range(vertices)}) - Min({v.x : v \in Range(vertices)}))

Capacities(vertices) == 1 .. DiagonalOf(vertices) + CapSlack

Speeds == 0 .. MaxSpeed

Problem(vertices, edges, demand, evs, departures, stations, n_vehicle, n_ev) ==
    [n_vertex |-> Len(vertices), n_edge |-> Len(edges), n_vehicle |-> n_vehicle,
     n_electric_vehicles |-> n_ev, n_charging_station |-> Len(stations),
     given |-> ArrayFields,
     vertices |-> vertices, demand |-> demand, edges |-> edges,
     electric_vehicles |-> evs, departures |-> departures,
     charging_stations |-> stations]

\* one vehicle at vertex 0, one demand 0 -> 2, stations on the other two corners
RectProblems ==
    {Problem(RectVertices, RectEdges, <<Demand(0, 2)>>, <<ElectricVehicles(0, c)>>,
             <<0>>, st, 1, 1) :
        c \in Capacities(RectVertices),
        st \in {<<ChargingStation(1, s)>> : s \in Speeds}
               \cup {<<ChargingStation(3, s)>> : s \in Speeds}
               \cup {<<ChargingStation(1, s), ChargingStation(3, s)>> : s \in Speeds}}

\* two vehicles at vertices 2 and 1, demands 0 -> 1 and 1 -> 0, a station at vertex 2;
\* n_vehicle and n_electric_vehicles are separate constructor arguments
LineProblems ==
    {Problem(LineVertices, LineEdges, <<Demand(0, 1), Demand(1, 0)>>,
             <<ElectricVehicles(0, c), ElectricVehicles(1, c)>>, <<2, 1>>,
             <<ChargingStation(2, s)>>, n[1], n[2]) :
        c \in Capacities(LineVertices), s \in Speeds,
        n \in {<<2, 2>>, <<1, 2>>, <<2, 1>>}}

Problems == RectProblems \cup LineProblems

(***************************************************************************)
(* FMPEnv._reset                                                           *)
(***************************************************************************)
\* _reset leaving each battery at the FMPState default of line 112
reset_states_default_battery(f) ==
    [i \in 1 .. f.n_electric_vehicles |->
        FMPState(f.departures[i], Loading(-1, -1), -1, 0)]

reset_states(f) ==
    [i \in 1 .. f.n_electric_vehicles |->
        FMPState(f.departures[i], Loading(-1, -1), -1, f.electric_vehicles[i].capacity)]

zeros(n) == [i \in 1 .. n |-> 0]

\* the record of a call that returned None, a list of actions (kept in the variable
\* actions) or nothing because it raised
Returned(call, kind) ==
    [call |-> call, kind |-> kind, observation |-> <<>>, reward |-> <<>>, done |-> FALSE]

\* FMPEnv.__init__: FMP(**kwargs), then _reset()
Init ==
    /\ kwargs \in Problems
    /\ is_valid(kwargs)
    /\ built = TRUE
    /\ states = reset_states(kwargs)
    /\ responded = {}
    /\ rewards = zeros(kwargs.n_vehicle)
    /\ actions = <<>>
    /\ forced = 0
    /\ pc = "ready"
    /\ err = "none"
    /\ ret = Returned("__init__", "None")

\* FMPEnv.reset
reset ==
    /\ built
    /\ pc \in {"ready", "sampled", "raised"}
    /\ states' = reset_states(fmp)
    /\ responded' = {}
    /\ rewards' = zeros(fmp.n_vehicle)
    /\ actions' = <<>>
    /\ forced' = 0
    /\ pc' = "ready"
    /\ err' = "none"
    /\ ret' = Returned("reset", "None")
    /\ UNCHANGED <<kwargs, built>>

(***************************************************************************)
(* GridSpace.sample                                                        *)
(***************************************************************************)
\* the outcome of one vehicle's random draws: togo is the truth of
\* np.random.random() < possibility_of_togo_charge, dmd is the result of
\* random.choices(available_dmd)[0]; NoDraw where nothing is drawn
Draws(demand) == [togo : BOOLEAN, dmd : {NO_LOADING} \cup Idx(demand)]
NoDraw == [togo |-> FALSE, dmd |-> NO_LOADING]

diagonal_len(vertices) ==
    2 * (Max({v.y : v \in Range(vertices)}) - Min({v.y : v \in Range(vertices)})
         + Max({v.x : v \in Range(vertices)}) - Min({v.x : v \in Range(vertices)}))

\* possibility_of_togo_charge = battery / (diagonal_len - capacity)
\*                              + capacity / (capacity - diagonal_len),
\* in exact arithmetic (capacity - battery) / (capacity - diagonal_len), kept as
\* numerator and denominator; a zero denominator is ZeroDivisionError
togo_num(capacity, battery) == capacity - battery
togo_den(capacity, diagonal) == capacity - diagonal

\* The source computes the two quotients and their sum in binary64 (53-bit
\* significand, round to nearest, ties to even).  The quotients differ by at
\* least 1/|den| and each is off by at most half a unit in its last place, so
\* the computed sum lies on the same side of 0 and of 1 as the exact one,
\* except where the exact sum is 1 (battery = diagonal_len): there the
\* computed sum is 1 plus the difference of the two rounding errors.

RECURSIVE Pow2(_)
Pow2(k) == IF k = 0 THEN 1 ELSE 2 * Pow2(k - 1)

\* 2^s modulo m
RECURSIVE Pow2Mod(_, _)
Pow2Mod(s, m) == IF s = 0 THEN 1 % m ELSE (2 * Pow2Mod(s - 1, m)) % m

\* the binary exponent e of n/d > 0: 2^e <= n/d < 2^(e+1)
RECURSIVE float_exponent(_, _)
float_exponent(n, d) ==
    IF n < d THEN float_exponent(2 * n, d) - 1
    ELSE IF 2 * d <= n THEN float_exponent(n, 2 * d) + 1
    ELSE 0

\* float(n/d) - n/d for integers n, d > 0, in units of 2^(e - 52) / d:
\* n * 2^(52 - e) / d is cut to an integer significand, rounded to nearest, ties to even
float_round_err(n, d) ==
    LET s == 52 - float_exponent(n, d)
        r == (n * Pow2Mod(s, d)) % d
        odd == (n * Pow2Mod(s, 2 * d)) % (2 * d) >= d
    IN  IF 2 * r < d \/ (2 * r = d /\ ~odd) THEN 0 - r ELSE d - r

\* battery = diagonal_len: the computed sum is float(float(big/d) - float(small/d))
\* with big - small = d, i.e. 1 - n * 2^(eB - 52) / d rounded to nearest, which is
\* below 1 iff n * 2^(eB - 52) / d > 2^-54 (1 - 2^-54 is a tie and rounds to 1.0)
float_sum_below_one(capacity, diagonal) ==
    LET d == IF capacity > diagonal THEN capacity - diagonal ELSE diagonal - capacity
        big == IF capacity > diagonal THEN capacity ELSE diagonal
        small == IF capacity > diagonal THEN diagonal ELSE capacity
        eA == float_exponent(big, d)
        eB == float_exponent(small, d)
        n == float_round_err(small, d) - float_round_err(big, d) * Pow2(eA - eB)
    IN  /\ small > 0
        /\ IF eB + 2 >= 0 THEN n * Pow2(eB + 2) > d ELSE n > d * Pow2(0 - eB - 2)

\* np.random.random() is k / 2^53 with 0 <= k < 2^53: the draw can fall below p
\* iff p > 0
can_togo_charge(num, den) == (num > 0 /\ den > 0) \/ (num < 0 /\ den < 0)
\* and can fall at or above p iff p < 1
can_not_togo_charge(num, den, capacity) ==
    \/ den > 0 /\ num < den
    \/ den < 0 /\ num > den
    \/ num = den /\ den # 0 /\ float_sum_below_one(capacity, capacity - den)

\* sample starting from an empty responding set, lines 46-50 left out
initial_responding_empty(sts) == {}

\* lines 45-50: the demands some vehicle carries or heads for
initial_responding(sts) ==
    {At(sts, i).is_loading.current :
        i \in {j \in Idx(sts) : At(sts, j).is_loading.current # NO_LOADING}}
    \cup
    {At(sts, i).is_loading.target :
        i \in {j \in Idx(sts) : /\ At(sts, j).is_loading.current = NO_LOADING
                                /\ At(sts, j).is_loading.target # NO_LOADING}}

SampleResult(action, location, responding, error, ok) ==
    [action |-> action, location |-> location, responding |-> responding,
     err |-> error, ok |-> ok]

\* lines 53-69: on the way with a demand; line 61 writes the vehicle's state
sample_delivering(s, responding, draw) ==
    LET destination == At(fmp.demand, s.is_loading.current).destination
        loc == one_step_to_destination(fmp.vertices, fmp.edges, s.location, destination)
    IN  SampleResult(
            IF loc = destination
            THEN [GridAction EXCEPT !.is_loading = Loading(NO_LOADING, NO_LOADING)]
            ELSE [GridAction EXCEPT
                    !.is_loading = Loading(s.is_loading.current, s.is_loading.target),
                    !.location = loc],
            loc, responding, "none", draw = NoDraw)

\* lines 70-88: on the way to a demand's departure
sample_to_respond(s, responding, draw) ==
    LET departure == At(fmp.demand, s.is_loading.target).departure
        loc == one_step_to_destination(fmp.vertices, fmp.edges, s.location, departure)
    IN  SampleResult(
            [GridAction EXCEPT
                !.location = loc,
                !.is_loading =
                    IF loc = departure
                    THEN Loading(s.is_loading.target, s.is_loading.target)
                    ELSE Loading(s.is_loading.current, s.is_loading.target)],
            s.location, responding, "none", draw = NoDraw)

\* lines 89-100 with the test of lines 93-96 turned into >=
sample_charging_one_more(i, s, responding, draw) ==
    LET station == At(fmp.charging_stations, s.is_charging)
    IN  SampleResult(
            [GridAction EXCEPT
                !.location = station.location,
                !.is_charging =
                    IF At(fmp.electric_vehicles, i).capacity - s.battery
                          >= station.charging_speed
                    THEN s.is_charging
                    ELSE NO_CHARGING],
            s.location, responding, "none", draw = NoDraw)

\* lines 89-100: charging
sample_charging(i, s, responding, draw) ==
    LET station == At(fmp.charging_stations, s.is_charging)
    IN  SampleResult(
            [GridAction EXCEPT
                !.location = station.location,
                !.is_charging =
                    IF At(fmp.electric_vehicles, i).capacity - s.battery
                          > station.charging_speed
                    THEN s.is_charging
                    ELSE NO_CHARGING],
            s.location, responding, "none", draw = NoDraw)

\* lines 123-132 with the charging field set before the station is reached
goto_station_early(s, ncs) ==
    LET station == At(fmp.charging_stations, ncs).location
        loc == one_step_to_destination(fmp.vertices, fmp.edges, s.location, station)
    IN  [GridAction EXCEPT !.location = loc, !.is_charging = ncs]

\* lines 113-132: go to the nearest charging station
goto_station(s, ncs) ==
    LET station == At(fmp.charging_stations, ncs).location
        loc == one_step_to_destination(fmp.vertices, fmp.edges, s.location, station)
    IN  [GridAction EXCEPT
            !.location = loc,
            !.is_charging = IF loc = station THEN ncs ELSE NO_CHARGING]

sample_goto_charge(s, responding) ==
    The({goto_station(s, ncs) :
            ncs \in {nearest_charging_station_with_distance(
                         fmp.vertices, fmp.charging_stations, fmp.edges, s.location)[1]}})

\* lines 134-138 without the test against the demands already delivered
available_dmd_unfiltered(responding) ==
    {d \in Idx(fmp.demand) : d \notin responding}

\* lines 134-138
available_dmd(responding) ==
    {d \in Idx(fmp.demand) : d \notin responded /\ d \notin responding}

\* sample without the bookkeeping of line 142
responding_add_dropped(responding, dmd_idx) == responding

\* line 142
responding_add(responding, dmd_idx) == responding \cup {dmd_idx}

\* lines 140-153 with the pickup of line 151 clearing the target
sample_choose_target_cleared(s, dmd_idx) ==
    LET departure == At(fmp.demand, dmd_idx).departure
        loc == one_step_to_destination(fmp.vertices, fmp.edges, s.location, departure)
    IN  [GridAction EXCEPT
            !.location = loc,
            !.is_loading = IF loc = departure THEN Loading(dmd_idx, NO_LOADING)
                           ELSE Loading(NO_LOADING, dmd_idx)]

\* lines 140-153: respond to demand dmd_idx
sample_choose(s, dmd_idx) ==
    LET departure == At(fmp.demand, dmd_idx).departure
        loc == one_step_to_destination(fmp.vertices, fmp.edges, s.location, departure)
    IN  [GridAction EXCEPT
            !.location = loc,
            !.is_loading = IF loc = departure THEN Loading(dmd_idx, dmd_idx)
                           ELSE Loading(NO_LOADING, dmd_idx)]

\* lines 101-156: available
sample_available(i, s, responding, draw) ==
    LET capacity == At(fmp.electric_vehicles, i).capacity
        num == togo_num(capacity, s.battery)
        den == togo_den(capacity, diagonal_len(fmp.vertices))
    IN  IF den = 0
        THEN SampleResult(GridAction, s.location, responding, "ZeroDivisionError",
                          draw = NoDraw)
        ELSE IF draw.togo
        THEN SampleResult(sample_goto_charge(s, responding), s.location, responding, "none",
                          can_togo_charge(num, den) /\ draw.dmd = NO_LOADING)
        ELSE IF available_dmd(responding) # {}
        THEN SampleResult(
                 IF draw.dmd \in available_dmd(responding)
                 THEN sample_choose(s, draw.dmd) ELSE GridAction,
                 s.location, responding_add(responding, draw.dmd), "none",
                 can_not_togo_charge(num, den, capacity) /\ draw.dmd \in available_dmd(responding))
        ELSE SampleResult([GridAction EXCEPT !.location = s.location],
                          s.location, responding, "none",
                          can_not_togo_charge(num, den, capacity) /\ draw.dmd = NO_LOADING)

\* lines 53-156: the action of vehicle i, the location line 61 leaves in its state,
\* the responding set afterwards; ok iff the draws are ones the vehicle can make
sample_vehicle(i, s, responding, draw) ==
    IF s.is_loading.current # NO_LOADING THEN sample_delivering(s, responding, draw)
    ELSE IF s.is_loading.target # NO_LOADING THEN sample_to_respond(s, responding, draw)
    ELSE IF s.is_charging # NO_CHARGING THEN sample_charging(i, s, responding, draw)
    ELSE sample_available(i, s, responding, draw)

\* lines 52-159: the loop over the vehicles, in index order
RECURSIVE sample_loop(_, _, _, _)
sample_loop(i, sts, responding, draws) ==
    IF i = Len(sts)
    THEN [samples |-> <<>>, states |-> sts, err |-> "none", ok |-> TRUE]
    ELSE LET r == sample_vehicle(i, At(sts, i), responding, At(draws, i))
             moved == [sts EXCEPT ![i + 1].location = r.location]
         IN  IF r.err # "none"
             THEN [samples |-> <<>>, states |-> moved, err |-> r.err,
                   ok |-> r.ok /\ \A j \in i + 1 .. Len(sts) - 1 : At(draws, j) = NoDraw]
             ELSE LET rest == sample_loop(i + 1, moved, r.responding, draws)
                  IN  [samples |-> <<r.action>> \o rest.samples, states |-> rest.states,
                       err |-> rest.err, ok |-> r.ok /\ rest.ok]

sample ==
    /\ built
    /\ pc = "ready"
    /\ \E draws \in [1 .. Len(states) -> Draws(fmp.demand)] :
          LET r == sample_loop(0, states, initial_responding(states), draws)
          IN  /\ r.ok
              /\ states' = r.states
              /\ actions' = IF r.err = "none" THEN r.samples ELSE <<>>
              /\ pc' = IF r.err = "none" THEN "sampled" ELSE "raised"
              /\ err' = r.err
              /\ ret' = Returned("sample", IF r.err = "none" THEN "list" ELSE "raise")
    /\ UNCHANGED <<kwargs, built, responded, rewards, forced>>

(***************************************************************************)
(* FMPEnv.step                                                             *)
(***************************************************************************)
StepResult(sts, rew, resp, error) ==
    [states |-> sts, rewards |-> rew, responded |-> resp, err |-> error]

\* lines 175-189: the action applied and the move paid for
step_move(s, a) ==
    FMPState(a.location,
             Loading(a.is_loading.current, a.is_loading.target),
             a.is_charging,
             s.battery - dist_between(fmp.vertices, fmp.edges, a.location, s.location))

\* step without the assertion of line 190
battery_assert_dropped(s) == TRUE

\* line 190
battery_assert(s) == s.battery >= 0

\* lines 191-194
step_charge(s) ==
    IF s.is_charging # -1
    THEN [s EXCEPT !.battery = @ + At(fmp.charging_stations, s.is_charging).charging_speed]
    ELSE s

\* line 198: a delivery completes
step_completes(prev_is_loading, s) ==
    prev_is_loading # -1 /\ s.is_loading.current = -1

\* lines 201-211
step_bonus(prev_is_loading) ==
    get_hot_spot_weight(fmp.vertices, fmp.edges, fmp.demand,
                        At(fmp.demand, prev_is_loading).departure)
    * dist_between(fmp.vertices, fmp.edges,
                   At(fmp.demand, prev_is_loading).departure,
                   At(fmp.demand, prev_is_loading).destination)

\* lines 196-211 with the battery change added as it is, not capped by min(., 0)
step_reward_uncapped(prev, s) ==
    (s.battery - prev.battery)
    + (IF step_completes(prev.is_loading.current, s)
       THEN step_bonus(prev.is_loading.current) ELSE 0)

\* lines 196-211
step_reward(prev, s) ==
    (IF s.battery - prev.battery < 0 THEN s.battery - prev.battery ELSE 0)
    + (IF step_completes(prev.is_loading.current, s)
       THEN step_bonus(prev.is_loading.current) ELSE 0)

\* lines 171-211: the loop over range(n_vehicle); an exception leaves what the
\* loop has written so far
RECURSIVE step_loop(_, _, _, _, _)
step_loop(i, sts, rew, resp, acts) ==
    IF i = fmp.n_vehicle THEN StepResult(sts, rew, resp, "none")
    ELSE IF i >= Len(sts) \/ i >= Len(acts) THEN StepResult(sts, rew, resp, "IndexError")
    ELSE LET prev == At(sts, i)
             moved == step_move(prev, At(acts, i))
         IN  IF ~ battery_assert(moved)
             THEN StepResult([sts EXCEPT ![i + 1] = moved], rew, resp, "AssertionError")
             ELSE LET s == step_charge(moved)
                  IN  step_loop(i + 1,
                                [sts EXCEPT ![i + 1] = s],
                                [rew EXCEPT ![i + 1] = @ + step_reward(prev, s)],
                                IF step_completes(prev.is_loading.current, s)
                                THEN resp \cup {prev.is_loading.current} ELSE resp,
                                acts)

\* lines 215-220
observation(sts) ==
    [Locations |-> [i \in 1 .. Len(sts) |-> sts[i].location],
     Batteries |-> [i \in 1 .. Len(sts) |-> sts[i].battery],
     Is_loading |-> [i \in 1 .. Len(sts) |-> sts[i].is_loading],
     Is_charging |-> [i \in 1 .. Len(sts) |-> sts[i].is_charging]]

\* an episode declared finished at the first delivery
step_done_any(resp) == resp # {}

\* line 223
step_done(resp) == resp = Idx(fmp.demand)

\* step(acts)
step_with(acts) ==
    LET r == step_loop(0, states, rewards, responded, acts)
    IN  /\ states' = r.states
        /\ rewards' = r.rewards
        /\ responded' = r.responded
        /\ err' = r.err
        /\ pc' = IF r.err = "none" THEN "ready" ELSE "raised"
        /\ ret' = IF r.err = "none"
                  THEN [call |-> "step", kind |-> "tuple",
                        observation |-> observation(r.states),
                        reward |-> r.rewards, done |-> step_done(r.responded)]
                  ELSE Returned("step", "raise")
        /\ actions' = acts
        /\ UNCHANGED <<kwargs, built>>

\* the driver passes the sampled actions to step
step ==
    /\ built
    /\ pc = "sampled"
    /\ step_with(actions)
    /\ UNCHANGED forced

Next == reset \/ sample \/ step

Spec == Init /\ [][Next]_vars

(***************************************************************************)
(* step() driven by an external policy: any list of n_vehicle actions      *)
(* whose fields are vertex, demand and station indices.                    *)
(***************************************************************************)
ExternalActions ==
    [location : Idx(fmp.vertices),
     is_loading : {Loading(NO_LOADING, NO_LOADING)}
                  \cup {Loading(NO_LOADING, d) : d \in Idx(fmp.demand)}
                  \cup {Loading(d, d) : d \in Idx(fmp.demand)},
     is_charging : {NO_CHARGING} \cup Idx(fmp.charging_stations)]

\* the caller may go on calling step() after a call that raised
step_external ==
    /\ built
    /\ pc \in {"ready", "sampled", "raised"}
    /\ forced < MaxForced
    /\ \E acts \in [1 .. fmp.n_vehicle -> ExternalActions] : step_with(acts)
    /\ forced' = forced + 1

NextExt == reset \/ sample \/ step_external

\* the one-vehicle problems with a single station, next to the vehicle's departure
InitExt ==
    /\ Init
    /\ kwargs.n_vehicle = 1
    /\ kwargs.n_electric_vehicles = 1
    /\ Len(kwargs.charging_stations) = 1
    /\ kwargs.charging_stations[1].location = 1

SpecExt == InitExt /\ [][NextExt]_vars

(***************************************************************************)
(* FMP.__init__ on arbitrary explicit arguments (no xml paths).            *)
(***************************************************************************)
Doubled(list) == list \o <<list[1]>>

\* arguments around a line problem: every count zero or as the arrays have it, at
\* most one array left None, arrays with and without a repeated element, demands
\* on and off the stations' vertices
Arguments ==
    {[n_vertex |-> nv * Len(vertices), n_edge |-> ne * Len(edges),
      n_vehicle |-> nh * Len(evs), n_electric_vehicles |-> nl * Len(evs),
      n_charging_station |-> nc * Len(stations),
      given |-> given,
      vertices |-> vertices, demand |-> demand, edges |-> edges,
      electric_vehicles |-> evs, departures |-> <<2, 1>>,
      charging_stations |-> stations] :
        nv \in {0, 1}, ne \in {0, 1}, nh \in {0, 1}, nl \in {0, 1}, nc \in {0, 1},
        given \in {g \in SUBSET ArrayFields : Cardinality(ArrayFields \ g) <= 1},
        vertices \in {LineVertices, Doubled(LineVertices)},
        edges \in {LineEdges, Doubled(LineEdges)},
        evs \in {<<ElectricVehicles(0, 4), ElectricVehicles(1, 4)>>,
                 Doubled(<<ElectricVehicles(0, 4), ElectricVehicles(1, 4)>>)},
        stations \in {<<ChargingStation(2, 1)>>, Doubled(<<ChargingStation(2, 1)>>),
                      <<ChargingStation(2, 1), ChargingStation(2, 2)>>,
                      <<ChargingStation(0, 1)>>},
        demand \in {<<>>, <<Demand(0, 1), Demand(1, 0)>>, <<Demand(0, 1), Demand(1, 2)>>,
                    <<Demand(2, 1)>>}}

InitValid ==
    /\ kwargs \in Arguments
    /\ built = FALSE
    /\ states = <<>>
    /\ responded = {}
    /\ rewards = <<>>
    /\ actions = <<>>
    /\ forced = 0
    /\ pc = "new"
    /\ err = "none"
    /\ ret = Returned("none", "None")

\* FMP.__init__, lines 46-65: the attributes are stored, then validated
construct ==
    /\ pc = "new"
    /\ built' = is_valid(kwargs)
    /\ pc' = IF is_valid(kwargs) THEN "constructed" ELSE "raised"
    /\ err' = IF is_valid(kwargs) THEN "none" ELSE "ValueError"
    /\ ret' = Returned("FMP", IF is_valid(kwargs) THEN "instance" ELSE "raise")
    /\ UNCHANGED <<kwargs, states, responded, rewards, actions, forced>>

NextValid == construct

SpecValid == InitValid /\ [][NextValid]_vars

(***************************************************************************)
(* The sample() / step() loop of one episode, every call eventually made.  *)
(***************************************************************************)
\* the length of the road from start_index to dest_index that
\* one_step_to_destination follows
RECURSIVE road_length(_, _, _, _)
road_length(vertices, edges, start_index, dest_index) ==
    IF start_index = dest_index THEN 0
    ELSE LET loc == one_step_to_destination(vertices, edges, start_index, dest_index)
         IN  dist_between(vertices, edges, start_index, loc)
             + road_length(vertices, edges, loc, dest_index)

\* the one-vehicle, one-demand problems whose vehicle can drive from its departure
\* to the demand's departure, on to its destination and back
InitLive ==
    /\ Init
    /\ kwargs.n_vehicle = 1
    /\ kwargs.n_electric_vehicles = 1
    /\ Len(kwargs.demand) = 1
    /\ kwargs.electric_vehicles[1].capacity >=
          road_length(kwargs.vertices, kwargs.edges, kwargs.departures[1],
                      kwargs.demand[1].departure)
          + road_length(kwargs.vertices, kwargs.edges, kwargs.demand[1].departure,
                        kwargs.demand[1].destination)
          + road_length(kwargs.vertices, kwargs.edges, kwargs.demand[1].destination,
                        kwargs.departures[1])

NextLive == sample \/ step

SpecLive == InitLive /\ [][NextLive]_vars /\ WF_vars(sample) /\ WF_vars(step)

(***************************************************************************)
(* Properties                                                              *)
(***************************************************************************)
Vehicles == 1 .. Len(states)

\* the vehicles one step() call walks through
Stepped == 1 .. fmp.n_vehicle

IsAvailable(s) ==
    /\ s.is_loading.current = NO_LOADING
    /\ s.is_loading.target = NO_LOADING
    /\ s.is_charging = NO_CHARGING

\* the transition is one call of step() (in SpecExt every call is counted)
ExternalStepCall == forced' = forced + 1 /\ ret'.call = "step"

\* the move the call asks of vehicle i costs more than the vehicle's battery holds
Unaffordable(i) ==
    dist_between(fmp.vertices, fmp.edges, actions'[i].location, states[i].location)
        > states[i].battery

\* C1: after every step() that returns normally each vehicle's battery is at
\* least 0, whatever actions were passed in; a call that asks a vehicle for a
\* move costing more than its battery raises the assertion instead of returning
C1_BatteryNonNegative ==
    /\ [](ret.call = "step" /\ ret.kind # "raise"
              => \A i \in Vehicles : states[i].battery >= 0)
    /\ [][(ExternalStepCall /\ \E i \in Stepped : Unaffordable(i))
              => (ret'.kind = "raise" /\ err' = "AssertionError" /\ pc' = "raised")]_vars

\* an external call asked for a move the battery could not pay and was stopped
C1_Witness ==
    /\ ret.call = "step"
    /\ err = "AssertionError"
    /\ forced > 0
    /\ \E i \in Vehicles : states[i].battery < 0

\* the demand an available vehicle picked in the last sample()
Selected(i) == actions[i].is_loading.target

Selects(i) == IsAvailable(states[i]) /\ Selected(i) # NO_LOADING

\* C2: within an episode the responded set only grows (nothing but reset()
\* takes a demand out of it), and sample() never has an available vehicle
\* select a demand that is already in the responded set
C2_RespondedGrows ==
    /\ [][ret'.call # "reset" => responded \subseteq responded']_vars
    /\ [](pc = "sampled" => \A i \in Vehicles : Selects(i) => Selected(i) \notin responded)

\* an available vehicle selects a demand while another demand is already delivered
C2_Witness ==
    /\ pc = "sampled"
    /\ responded # {}
    /\ \E i \in Vehicles : Selects(i)

\* C3: within one sample() call no two available vehicles select the same
\* demand, and no available vehicle selects a demand another vehicle already
\* heads for or carries
C3_NoDoubleSelection ==
    pc = "sampled" =>
        \A i \in Vehicles : Selects(i) =>
            \A j \in Vehicles \ {i} :
                /\ ~ (Selects(j) /\ Selected(j) = Selected(i))
                /\ states[j].is_loading.current # Selected(i)
                /\ states[j].is_loading.target # Selected(i)

\* one call in which two available vehicles each select a demand
C3_Witness ==
    /\ pc = "sampled"
    /\ \E i \in Vehicles : \E j \in Vehicles \ {i} : Selects(i) /\ Selects(j)

\* one call in which a vehicle selects while another one is busy with a demand
C3_WitnessBusy ==
    /\ pc = "sampled"
    /\ \E i \in Vehicles : \E j \in Vehicles \ {i} :
           Selects(i) /\ (states[j].is_loading.current # NO_LOADING
                          \/ states[j].is_loading.target # NO_LOADING)

\* C4: the done flag a step() returns is true exactly when the responded set
\* holds as many demands as the problem has
C4_DoneIffAllResponded ==
    (ret.call = "step" /\ ret.kind # "raise")
        => (ret.done <=> Cardinality(responded) = Len(fmp.demand))

\* a step of a two-demand problem returned done
C4_Witness ==
    /\ ret.call = "step"
    /\ ret.kind # "raise"
    /\ Len(fmp.demand) = 2
    /\ ret.done

\* a step of a two-demand problem returned not done with one demand delivered
C4_WitnessNotDone ==
    /\ ret.call = "step"
    /\ ret.kind # "raise"
    /\ Cardinality(responded) = 1
    /\ ~ ret.done

\* C5: right after construction and right after every reset() each vehicle is
\* at its departure vertex with battery equal to its capacity, carries and
\* heads for no demand, is not charging, the responded set is empty and every
\* reward is zero
C5_ResetState ==
    ret.call \in {"__init__", "reset"} =>
        /\ Len(states) = fmp.n_electric_vehicles
        /\ \A i \in Vehicles :
               /\ states[i].location = fmp.departures[i]
               /\ states[i].battery = fmp.electric_vehicles[i].capacity
               /\ states[i].is_loading = Loading(NO_LOADING, NO_LOADING)
               /\ states[i].is_charging = NO_CHARGING
        /\ responded = {}
        /\ \A i \in DOMAIN rewards : rewards[i] = 0

\* reset() has just returned
C5_Witness == ret.call = "reset" /\ pc = "ready"

\* C6: driven by ticks of sample() then step(), with a capacity large enough
\* for the trips, the episode eventually returns done with every demand in the
\* responded set
C6_EventuallyDone ==
    <>(ret.call = "step" /\ ret.done /\ responded = Idx(fmp.demand))

\* the move sample() proposed for vehicle i costs no more than its battery
Affordable(i) ==
    dist_between(fmp.vertices, fmp.edges, actions[i].location, states[i].location)
        <= states[i].battery

\* C7: every action sample() returns moves its vehicle over a distance of at
\* most the vehicle's battery, so a step() on sampled actions never trips the
\* negative-battery assertion
C7_SampledMovesAffordable ==
    /\ pc = "sampled" => \A i \in Vehicles : Affordable(i)
    /\ err # "AssertionError"

\* C9: each vehicle's battery is at most the vehicle's capacity
C9_BatteryWithinCapacity ==
    \A i \in Vehicles : states[i].battery <= fmp.electric_vehicles[i].capacity

\* the words of the validation contract, on the constructor's arguments
Absent(name) == name \notin kwargs.given

ZeroCount ==
    \/ kwargs.n_vertex = 0
    \/ kwargs.n_edge = 0
    \/ kwargs.n_vehicle = 0
    \/ kwargs.n_charging_station = 0

HasDuplicates(list) ==
    \E i \in DOMAIN list : \E j \in DOMAIN list : i < j /\ list[i] = list[j]

EndpointAtStation ==
    \E d \in DOMAIN kwargs.demand : \E c \in DOMAIN kwargs.charging_stations :
        \/ kwargs.demand[d].departure = kwargs.charging_stations[c].location
        \/ kwargs.demand[d].destination = kwargs.charging_stations[c].location

InvalidArguments ==
    \/ \E name \in ArrayFields : Absent(name)
    \/ ZeroCount
    \/ HasDuplicates(kwargs.vertices)
    \/ HasDuplicates(kwargs.edges)
    \/ HasDuplicates(kwargs.electric_vehicles)
    \/ HasDuplicates(kwargs.charging_stations)
    \/ EndpointAtStation

\* C8: constructing a problem definition raises the validation error and
\* yields no instance whenever a required field is absent or has a zero count,
\* or vertices, edges, vehicles or charging stations hold a duplicate, or a
\* demand departs from or arrives at a charging station's vertex; so no
\* constructed instance has a demand endpoint on a charging station's vertex
C8_ValidationRejects ==
    pc # "new" =>
        /\ InvalidArguments => (~ built /\ err = "ValueError" /\ ret.kind = "raise")
        /\ built => ~ EndpointAtStation

\* a construction refused for nothing but a demand endpoint on a station's vertex
C8_Witness ==
    /\ pc = "raised"
    /\ err = "ValueError"
    /\ EndpointAtStation
    /\ ~ ZeroCount
    /\ \A name \in ArrayFields : ~ Absent(name)
    /\ ~ HasDuplicates(kwargs.vertices)
    /\ ~ HasDuplicates(kwargs.edges)
    /\ ~ HasDuplicates(kwargs.electric_vehicles)
    /\ ~ HasDuplicates(kwargs.charging_stations)

\* the transition is one step() on the actions sample() returned
SampledStepCall == pc = "sampled" /\ ret'.call = "step"

\* vehicle i goes from delivering to not loading in the transition
Completes(i) ==
    /\ states[i].is_loading.current # NO_LOADING
    /\ states'[i].is_loading.current = NO_LOADING

\* C10: the delivery-completion event of a demand happens at most once in an
\* episode and by a single vehicle: a vehicle that completes a demand adds it
\* to the responded set, the demand was not there before, and no other vehicle
\* completes the same demand in the same step
C10_DeliveredOnce ==
    [][SampledStepCall =>
          \A i \in Vehicles : Completes(i) =>
              /\ states[i].is_loading.current \notin responded
              /\ ret'.kind # "raise" => states[i].is_loading.current \in responded'
              /\ \A j \in Vehicles \ {i} :
                     Completes(j) =>
                         states[j].is_loading.current # states[i].is_loading.current]_vars

\* both demands of a two-demand problem have been delivered
C10_Witness ==
    /\ ret.call = "step"
    /\ ret.kind # "raise"
    /\ Cardinality(responded) = 2

\* the transition is one call of sample() that returned its list of actions
SampleCall == pc = "ready" /\ ret'.call = "sample" /\ ret'.kind = "list"

\* C11: sample() only reads the vehicle states: after it returns, every
\* vehicle's location, loading, charging and battery are as they were before
C11_SampleReadsOnly ==
    [][SampleCall => states' = states]_vars

\* C12: reset() returns the observation of the freshly reset state, in the
\* shape of the observation step() returns
C12_ResetReturnsObservation ==
    ret.call = "reset" =>
        /\ ret.kind # "None"
        /\ ret.observation = observation(states)

\* the transition is one step() on sampled actions that returned
SampledStepReturns == SampledStepCall /\ ret'.kind # "raise"

\* the vehicles a step() call moves
SteppedVehicles == {i \in Vehicles : i <= fmp.n_vehicle}

NoLoading == Loading(NO_LOADING, NO_LOADING)

Departure(d) == At(fmp.demand, d).departure

Destination(d) == At(fmp.demand, d).destination

\* the loading of vehicle i changes over the tick as the lifecycle allows; the
\* vertex the step lands on is the vehicle's location after the step
LoadingLifecycle(i) ==
    LET before == states[i].is_loading
        after == states'[i].is_loading
        landed == states'[i].location
    IN  IF before = NoLoading
        THEN \/ after = NoLoading /\ ~ Selects(i)
             \/ /\ Selects(i)
                /\ landed # Departure(Selected(i))
                /\ after = Loading(NO_LOADING, Selected(i))
             \/ /\ Selects(i)
                /\ landed = Departure(Selected(i))
                /\ after = Loading(Selected(i), Selected(i))
        ELSE IF before.current = NO_LOADING
        THEN after = IF landed = Departure(before.target)
                     THEN Loading(before.target, before.target)
                     ELSE before
        ELSE /\ before.target = before.current
             /\ after = IF landed = Destination(before.current)
                        THEN NoLoading
                        ELSE before

\* C13: over a tick of sample() and step() a vehicle's loading goes from
\* (none, none) to (none, d) when d is selected and the step does not land on
\* d's departure, becomes (d, d) exactly when the step lands on d's departure,
\* stays as it is in transit, goes from (d, d) to (none, none) exactly when the
\* step lands on d's destination, and changes in no other way
C13_LoadingLifecycle ==
    [][SampledStepReturns => \A i \in SteppedVehicles : LoadingLifecycle(i)]_vars

\* what step() makes of the actions the sample() of this transition returned: with
\* the unprimed variables, the two ends of one tick
TickEnd == step_loop(0, states', rewards, responded, actions')

ChargeGained(s) ==
    IF s.is_charging # NO_CHARGING
    THEN At(fmp.charging_stations, s.is_charging).charging_speed
    ELSE 0

\* C14: over one tick of sample() and step() a vehicle's battery changes by
\* minus the distance from its location before the tick to its location after
\* it, plus the charging speed of its station if it is charging after the step
C14_BatteryChange ==
    [][(SampleCall /\ TickEnd.err = "none") =>
          \A i \in SteppedVehicles :
              TickEnd.states[i].battery - states[i].battery
                  = ChargeGained(TickEnd.states[i])
                    - dist_between(fmp.vertices, fmp.edges,
                                   states[i].location, TickEnd.states[i].location)]_vars

\* the charging phase of sample(): charging set, no loading
InChargingPhase(s) == s.is_loading = NoLoading /\ s.is_charging # NO_CHARGING

\* vehicle i still needs more charge than one tick supplies
NeedsMoreCharge(i) ==
    fmp.electric_vehicles[i].capacity - states[i].battery
        > At(fmp.charging_stations, states[i].is_charging).charging_speed

\* C15: for a vehicle in the charging phase sample() returns an action at the
\* station's vertex that keeps the charging field iff capacity - battery is
\* greater than the station's charging speed; otherwise the action's charging
\* is none and after the step the vehicle is available with the battery it had
C15_ChargingPhase ==
    [][SampleCall =>
          \A i \in Vehicles : InChargingPhase(states[i]) =>
              /\ actions'[i].location
                     = At(fmp.charging_stations, states[i].is_charging).location
              /\ actions'[i].is_loading = NoLoading
              /\ NeedsMoreCharge(i) => actions'[i].is_charging = states[i].is_charging
              /\ ~ NeedsMoreCharge(i) =>
                     /\ actions'[i].is_charging = NO_CHARGING
                     /\ (TickEnd.err = "none" /\ i \in SteppedVehicles) =>
                            /\ IsAvailable(TickEnd.states[i])
                            /\ TickEnd.states[i].battery = states[i].battery]_vars

\* sample() has just ended the charging of a vehicle
C15_Witness ==
    /\ pc = "sampled"
    /\ \E i \in Vehicles :
           /\ InChargingPhase(states[i])
           /\ ~ NeedsMoreCharge(i)
           /\ actions[i].is_charging = NO_CHARGING

\* sample() has just kept a vehicle charging
C15_WitnessStill ==
    /\ pc = "sampled"
    /\ \E i \in Vehicles :
           /\ InChargingPhase(states[i])
           /\ NeedsMoreCharge(i)
           /\ actions[i].is_charging = states[i].is_charging

\* the transition is one call of step(), on any actions, that returned
ExternalStepReturns == ExternalStepCall /\ ret'.kind # "raise"

\* vehicle i stops carrying a demand in the transition
DeliveryCompleted(i) ==
    /\ states[i].is_loading.current # NO_LOADING
    /\ states'[i].is_loading.current = NO_LOADING

\* hot_spot_weight(departure) * distance(departure, destination) of demand d
Bonus(d) ==
    get_hot_spot_weight(fmp.vertices, fmp.edges, fmp.demand, Departure(d))
    * dist_between(fmp.vertices, fmp.edges, Departure(d), Destination(d))

\* C16: in every step() a vehicle's reward changes by
\* min(battery after - battery before, 0), plus the bonus of the demand it
\* carried iff its loading.current was a demand before the step and is none
\* after it; without a completed delivery the reward never increases
C16_RewardChange ==
    [][ExternalStepReturns =>
          \A i \in SteppedVehicles :
              /\ rewards'[i] - rewards[i]
                     = Min({states'[i].battery - states[i].battery, 0})
                       + (IF DeliveryCompleted(i)
                          THEN Bonus(states[i].is_loading.current) ELSE 0)
              /\ ~ DeliveryCompleted(i) => rewards'[i] <= rewards[i]]_vars

\* a step() on outside actions has paid the bonus of a completed delivery
C16_Witness ==
    /\ ret.call = "step"
    /\ ret.kind # "raise"
    /\ forced > 0
    /\ responded # {}
    /\ \E i \in DOMAIN rewards : rewards[i] > 0

\* C17: for every vehicle at most one of loading.current and loading.target is
\* a demand
C17_AtMostOneActive ==
    \A i \in Vehicles :
        states[i].is_loading.current = NO_LOADING \/ states[i].is_loading.target = NO_LOADING

\* C17, amended: a vehicle's loading is (none, none), (none, d) or (d, d): it
\* is busy with at most one demand, and while it carries demand d both fields
\* are d
C17_OneDemandAtATime ==
    \A i \in Vehicles :
        \/ states[i].is_loading = NoLoading
        \/ /\ states[i].is_loading.current = NO_LOADING
           /\ states[i].is_loading.target \in Idx(fmp.demand)
        \/ /\ states[i].is_loading.current \in Idx(fmp.demand)
           /\ states[i].is_loading.target = states[i].is_loading.current

\* a step has left a vehicle carrying a demand, both fields set to it
C17_Witness ==
    /\ ret.call = "step"
    /\ ret.kind # "raise"
    /\ \E i \in Vehicles :
           /\ states[i].is_loading.current \in Idx(fmp.demand)
           /\ states[i].is_loading.target = states[i].is_loading.current

\* C18: after a tick in which a vehicle completes the delivery of demand d, its
\* loading going from (d, d) to (none, none), the vehicle is at d's destination
C18_CompletedAtDestination ==
    [][SampledStepReturns =>
          \A i \in SteppedVehicles :
              (Completes(i) /\ states'[i].is_loading = NoLoading)
                  => states'[i].location = Destination(states[i].is_loading.current)]_vars

\* C19: no vehicle is charging and loading at once: a vehicle whose charging
\* is a station index has both loading fields none and stands on that
\* station's vertex
C19_ChargingExcludesLoading ==
    \A i \in Vehicles :
        states[i].is_charging # NO_CHARGING =>
            /\ states[i].is_charging \in Idx(fmp.charging_stations)
            /\ states[i].is_loading = NoLoading
            /\ states[i].location
                   = At(fmp.charging_stations, states[i].is_charging).location

\* a step has left a vehicle charging at a station it drove to
C19_Witness ==
    /\ ret.call = "step"
    /\ ret.kind # "raise"
    /\ \E i \in Vehicles :
           /\ states[i].is_charging # NO_CHARGING
           /\ states[i].location # fmp.departures[i]

\* C20: a vehicle that enters the charging phase eventually leaves it: under
\* repeated ticks of sample() and step() its charging field becomes none again
C20_ChargingEnds ==
    (states[1].is_charging # NO_CHARGING) ~> (states[1].is_charging = NO_CHARGING)

\* C21: the vehicles reset() initialises are the vehicles step() walks through
\* and the reward vector covers: there are as many vehicle states as rewards
\* and as actions consumed, and step() never addresses a vehicle without state
C21_VehicleCountsAgree ==
    /\ Len(states) = Len(rewards)
    /\ Len(states) = fmp.n_vehicle
    /\ err # "IndexError"

====
